---- MODULE Spec2Model ----
(***************************************************************************)
(* Model of the size-estimation and task-execution engine of main.py:      *)
(* get_dir_size, format_size, confirm_action, CleanupTask and the          *)
(* measure / report / confirm-and-execute / summary flow of main().        *)
(*                                                                         *)
(* Text (the stdout of du, the answers typed at the prompt) is a sequence  *)
(* of one-character strings, so that strip/split/int/lower are computed.   *)
(* A function result is a record [raised, value]: raised = TRUE is an      *)
(* exception leaving the function.                                         *)
(***************************************************************************)
EXTENDS Integers, Sequences, FiniteSets, TLC

\* ---- bounds of the model ----
MaxFiles == 2          \* files seen under one directory
MaxFileSize == 2       \* apparent size of one file, in bytes
MaxBlocks == 1         \* 512-byte blocks allocated to one file
MaxProbes == 2         \* calls of get_dir_size on one unmodified directory
NumTasks == 2          \* length of the task catalog
MaxSize == 2           \* largest byte count a size function reports

\* ---- program constants ----
BlockSize == 512
Kilo == 1024

VARIABLES
    pdir,          \* the directory handed to get_dir_size
    results,       \* the calls made on it: <<[du, res]>>
    pc,            \* position of main()
    idx,           \* index of the task the current loop is at
    sub,           \* position inside one pass of the confirm loop
    size,          \* task.size of every task
    total_size,    \* 'Total estimated cleanup' of the overview
    total_cleaned, \* running total of freed bytes
    shown,         \* what the overview printed for every task
    summary,       \* what the summary printed
    sizeFault,     \* history: the task's size_func raised
    asked,         \* history: number of input() calls made for the task
    resp,          \* history: the answer read for the task
    cleanCalls,    \* history: number of calls of the task's cleanup_func
    cleanRes,      \* history: how the task's cleanup_func ended
    outcome,       \* history: how the task left the confirm loop
    log            \* history: the events of the run, in order

probeVars == <<pdir, results>>
mainVars == <<pc, idx, sub, size, total_size, total_cleaned, shown, summary,
              sizeFault, asked, resp, cleanCalls, cleanRes, outcome, log>>
vars == <<pdir, results, pc, idx, sub, size, total_size, total_cleaned, shown,
          summary, sizeFault, asked, resp, cleanCalls, cleanRes, outcome, log>>

Ret(v) == [raised |-> FALSE, value |-> v]
Raise == [raised |-> TRUE, value |-> 0]

RECURSIVE SeqsUpTo(_, _)
SeqsUpTo(S, n) ==
    IF n = 0 THEN {<<>>}
    ELSE LET shorter == SeqsUpTo(S, n - 1)
         IN shorter \cup {Append(s, x) : s \in {t \in shorter : Len(t) = n - 1}, x \in S}

\* ---------------------------------------------------------------------
\* Text helpers (str.strip, str.split, int, str.lower)
\* ---------------------------------------------------------------------
Whitespace == {" ", "\t", "\n"}
DigitChars == <<"0", "1", "2", "3", "4", "5", "6", "7", "8", "9">>
DigitSet == {DigitChars[i] : i \in 1..10}

DigitVal(c) == (CHOOSE i \in 1..10 : DigitChars[i] = c) - 1

\* str(n) for n >= 0
RECURSIVE Digits(_)
Digits(n) ==
    IF n < 10 THEN <<DigitChars[n + 1]>>
    ELSE Digits(n \div 10) \o <<DigitChars[(n % 10) + 1]>>

RECURSIVE LStrip(_)
LStrip(s) ==
    IF s = <<>> THEN <<>>
    ELSE IF Head(s) \in Whitespace THEN LStrip(Tail(s)) ELSE s

RECURSIVE RStrip(_)
RStrip(s) ==
    IF s = <<>> THEN <<>>
    ELSE IF s[Len(s)] \in Whitespace THEN RStrip(SubSeq(s, 1, Len(s) - 1)) ELSE s

Strip(s) == RStrip(LStrip(s))

RECURSIVE UpToWhitespace(_)
UpToWhitespace(s) ==
    IF s = <<>> \/ Head(s) \in Whitespace THEN <<>>
    ELSE <<Head(s)>> \o UpToWhitespace(Tail(s))

\* s.split()[0]; <<>> stands for the IndexError of an empty split
FirstToken(s) == UpToWhitespace(LStrip(s))

RECURSIVE DigitsValue(_)
DigitsValue(s) ==
    IF s = <<>> THEN 0
    ELSE DigitsValue(SubSeq(s, 1, Len(s) - 1)) * 10 + DigitVal(s[Len(s)])

UnsignedPart(t) == IF t # <<>> /\ Head(t) \in {"+", "-"} THEN Tail(t) ELSE t

\* int(t) succeeds: an optional sign and at least one decimal digit
IsPyInt(t) ==
    /\ UnsignedPart(t) # <<>>
    /\ \A i \in 1..Len(UnsignedPart(t)) : UnsignedPart(t)[i] \in DigitSet

PyInt(t) ==
    IF Head(t) = "-" THEN 0 - DigitsValue(UnsignedPart(t))
    ELSE DigitsValue(UnsignedPart(t))

\* ---------------------------------------------------------------------
\* The directory under measurement and the external du command
\* ---------------------------------------------------------------------
\* A file is either unreadable (os.path.getsize raises, du cannot count it)
\* or has an apparent size and a number of allocated 512-byte blocks.
Files ==
    {[denied |-> TRUE, size |-> 0, blocks |-> 0]} \cup
    [denied : {FALSE}, size : 0..MaxFileSize, blocks : 0..MaxBlocks]

PathText == <<"/", "c">>

\* path: the argument; exists: os.path.exists(path); files: the files the
\* walk enumerates; deniedSubdir: some subdirectory cannot be listed.
Dirs ==
    {[path |-> <<>>, exists |-> FALSE, files |-> <<>>, deniedSubdir |-> FALSE],
     [path |-> PathText, exists |-> FALSE, files |-> <<>>, deniedSubdir |-> FALSE]}
    \cup [path : {PathText}, exists : {TRUE}, files : SeqsUpTo(Files, MaxFiles),
          deniedSubdir : BOOLEAN]

AnyDenied(d) == d.deniedSubdir \/ \E i \in 1..Len(d.files) : d.files[i].denied

RECURSIVE ReadableBlocks(_)
ReadableBlocks(fs) ==
    IF fs = <<>> THEN 0
    ELSE (IF Head(fs).denied THEN 0 ELSE Head(fs).blocks) + ReadableBlocks(Tail(fs))

\* The ways subprocess.run(['du', '-s', path], timeout=30) can end
DuKinds == {"total", "silent", "garbage", "timeout", "nolaunch"}

GarbageText == <<"d", "u", ":", " ", "?", "\n">>

\* total:    du prints '<blocks>\t<path>' for what it could read, and a
\*           permission diagnostic on stderr when something was unreadable
\* silent:   nothing on stdout, only diagnostics
\* garbage:  stdout whose first token is not a number
\* timeout:  subprocess.TimeoutExpired
\* nolaunch: the binary is absent or cannot be started (OSError)
DuRun(d, kind) ==
    CASE kind = "total" ->
           [status |-> "ok",
            stdout |-> Digits(ReadableBlocks(d.files)) \o <<"\t">> \o d.path \o <<"\n">>,
            stderrDenied |-> AnyDenied(d)]
      [] kind = "silent" ->
           [status |-> "ok", stdout |-> <<>>, stderrDenied |-> AnyDenied(d)]
      [] kind = "garbage" ->
           [status |-> "ok", stdout |-> GarbageText, stderrDenied |-> AnyDenied(d)]
      [] kind = "timeout" ->
           [status |-> "timeout", stdout |-> <<>>, stderrDenied |-> FALSE]
      [] OTHER ->
           [status |-> "oserror", stdout |-> <<>>, stderrDenied |-> FALSE]

\* ---------------------------------------------------------------------
\* get_dir_size
\* ---------------------------------------------------------------------
\* the loop over os.walk: <<total_size, permission_error>>; a subdirectory
\* that cannot be listed is skipped by os.walk without any error
RECURSIVE WalkFiles(_, _, _)
WalkFiles(fs, total, perm) ==
    IF fs = <<>> THEN <<total, perm>>
    ELSE IF Head(fs).denied THEN WalkFiles(Tail(fs), total, TRUE)
    ELSE WalkFiles(Tail(fs), total + Head(fs).size, perm)

\* variant: a zero total is reported as denied whether or not an access failed
WalkResult_ZeroIsDenied(total, perm) ==
    IF total > 0 THEN total ELSE -1

WalkResult(total, perm) ==
    IF total > 0 THEN total
    ELSE IF total = 0 /\ perm THEN -1
    ELSE total

manual_walk(d) ==
    LET w == WalkFiles(d.files, 0, FALSE)
    IN Ret(WalkResult(w[1], w[2]))

\* the except clause around the du call
DuExceptCaught(status) == status = "timeout"

get_dir_size(d, kind) ==
    IF d.path = <<>> \/ ~d.exists THEN Ret(0)
    ELSE LET r == DuRun(d, kind)
         IN IF r.status # "ok"
            THEN IF DuExceptCaught(r.status) THEN manual_walk(d) ELSE Raise
            ELSE IF Strip(r.stdout) # <<>> /\ IsPyInt(FirstToken(r.stdout))
                 THEN Ret(PyInt(FirstToken(r.stdout)) * BlockSize)
                 ELSE manual_walk(d)

\* ---------------------------------------------------------------------
\* format_size
\* ---------------------------------------------------------------------
AccessDeniedText == <<"A", "c", "c", "e", "s", "s", " ", "D", "e", "n", "i", "e", "d">>
EmptyText == <<"E", "m", "p", "t", "y", " ", "(", "0", " ", "B", ")">>
Units == <<<<"B">>, <<"K", "B">>, <<"M", "B">>, <<"G", "B">>, <<"T", "B">>>>
PetaUnit == <<"P", "B">>

TwoDigits(n) == <<DigitChars[(n \div 10) + 1], DigitChars[(n % 10) + 1]>>

\* f"{x:.2f}" of x = n / d, n >= 0: hundredths rounded half to even
Hundredths(n, d) ==
    LET q == (n * 100) \div d
        r == (n * 100) % d
    IN IF 2 * r > d \/ (2 * r = d /\ q % 2 = 1) THEN q + 1 ELSE q

Fixed2(n, d) ==
    LET h == Hundredths(n, d)
    IN Digits(h \div 100) \o <<".">> \o TwoDigits(h % 100)

\* the loop over the units: bytes_size is n / d
RECURSIVE FormatUnits(_, _, _)
FormatUnits(n, d, u) ==
    IF u > Len(Units) THEN Fixed2(n, d) \o <<" ">> \o PetaUnit
    ELSE IF n < Kilo * d THEN Fixed2(n, d) \o <<" ">> \o Units[u]
    ELSE FormatUnits(n, d * Kilo, u + 1)

format_size(bytes_size) ==
    IF bytes_size = -1 THEN AccessDeniedText
    ELSE IF bytes_size = 0 THEN EmptyText
    ELSE IF bytes_size < 0 THEN <<"-">> \o Fixed2(0 - bytes_size, 1) \o <<" ">> \o Units[1]
    ELSE FormatUnits(bytes_size, 1, 1)

\* ---------------------------------------------------------------------
\* confirm_action
\* ---------------------------------------------------------------------
UpperChars == <<"A", "B", "C", "D", "E", "F", "G", "H", "I", "J", "K", "L", "M", "N", "O", "P", "Q", "R", "S", "T", "U", "V", "W", "X", "Y", "Z">>
LowerChars == <<"a", "b", "c", "d", "e", "f", "g", "h", "i", "j", "k", "l", "m", "n", "o", "p", "q", "r", "s", "t", "u", "v", "w", "x", "y", "z">>

LowerChar(c) ==
    IF \E i \in 1..Len(UpperChars) : UpperChars[i] = c
    THEN LowerChars[CHOOSE i \in 1..Len(UpperChars) : UpperChars[i] = c]
    ELSE c

\* str.lower
Lower(s) == [i \in 1..Len(s) |-> LowerChar(s[i])]

YesAnswers == {<<"y">>, <<"y", "e", "s">>}
NoAnswers == {<<"n">>, <<"n", "o">>}

\* variant: an answer that is neither yes nor no is asked again
RECURSIVE confirm_action_Retry(_)
confirm_action_Retry(stream) ==
    IF stream = <<>> THEN [raised |-> TRUE, value |-> FALSE, reads |-> 1]
    ELSE LET response == Lower(Head(stream))
         IN IF response \in YesAnswers THEN [raised |-> FALSE, value |-> TRUE, reads |-> 1]
            ELSE IF response \in NoAnswers THEN [raised |-> FALSE, value |-> FALSE, reads |-> 1]
            ELSE LET again == confirm_action_Retry(Tail(stream))
                 IN [again EXCEPT !.reads = @ + 1]

\* stream: the lines still to come on stdin; an exhausted stream makes
\* input() raise EOFError.  reads counts the calls of input().
confirm_action(stream) ==
    IF stream = <<>> THEN [raised |-> TRUE, value |-> FALSE, reads |-> 1]
    ELSE LET response == Lower(Head(stream))
         IN IF response \in YesAnswers THEN [raised |-> FALSE, value |-> TRUE, reads |-> 1]
            ELSE IF response \in NoAnswers THEN [raised |-> FALSE, value |-> FALSE, reads |-> 1]
            ELSE [raised |-> FALSE, value |-> FALSE, reads |-> 1]

\* ---------------------------------------------------------------------
\* CleanupTask
\* ---------------------------------------------------------------------
\* variant: the fault of the size function leaves calculate_size
calculate_size_Propagates(f) == f

\* f: how the task's size_func ended; the result's value is the new self.size
calculate_size(f) == IF f.raised THEN Ret(0) ELSE Ret(f.value)

\* c: how the task's cleanup_func ended
execute(c) == IF c.raised THEN Ret(FALSE) ELSE Ret(c.value)

\* How a size_func of the catalog can end: with a byte count (of
\* get_dir_size, or 0 for a tool that is not installed), with -1 (of
\* get_dir_size, or of the docker report), or with a fault.
SizeFuncResults == {Ret(v) : v \in (0 - 1)..MaxSize} \cup {Raise}

\* How a cleanup_func can end: True, False, or a fault.
CleanupResults == {Ret(TRUE), Ret(FALSE), Raise}

\* What the operator may type at one prompt
Responses ==
    {<<"y">>, <<"Y", "e", "S">>, <<"N", "o">>, <<>>, <<"y", "y">>}

MaxAnswers == 2        \* lines available on stdin at one prompt

Streams == SeqsUpTo(Responses, MaxAnswers)

\* ---------------------------------------------------------------------
\* State
\* ---------------------------------------------------------------------
Tasks == 1..NumTasks

NoAnswer == <<"-", "n", "o", "n", "e", "-">>

MainInit ==
    /\ pc = "measuring"
    /\ idx = 1
    /\ sub = "top"
    /\ size = [i \in Tasks |-> 0]
    /\ total_size = 0
    /\ total_cleaned = 0
    /\ shown = [i \in Tasks |-> <<>>]
    /\ summary = <<>>
    /\ sizeFault = [i \in Tasks |-> FALSE]
    /\ asked = [i \in Tasks |-> 0]
    /\ resp = [i \in Tasks |-> NoAnswer]
    /\ cleanCalls = [i \in Tasks |-> 0]
    /\ cleanRes = [i \in Tasks |-> "none"]
    /\ outcome = [i \in Tasks |-> "pending"]
    /\ log = <<>>

\* a run of main(): every task is constructed with size 0
Init ==
    /\ MainInit
    /\ pdir = [path |-> <<>>, exists |-> FALSE, files |-> <<>>, deniedSubdir |-> FALSE]
    /\ results = <<>>

\* get_dir_size applied to any directory
ProbeInit ==
    /\ MainInit
    /\ pdir \in Dirs
    /\ results = <<>>

\* ---------------------------------------------------------------------
\* get_dir_size called again on the same, unmodified directory
\* ---------------------------------------------------------------------
Probe ==
    /\ Len(results) < MaxProbes
    /\ \E k \in DuKinds :
         results' = Append(results, [du |-> k, res |-> get_dir_size(pdir, k)])
    /\ UNCHANGED <<pdir, pc, idx, sub, size, total_size, total_cleaned, shown, summary,
                   sizeFault, asked, resp, cleanCalls, cleanRes, outcome, log>>

\* ---------------------------------------------------------------------
\* main()
\* ---------------------------------------------------------------------
\* an exception that leaves main() is caught by the handler of __main__:
\* pc = "aborted", or pc = "eof" for the EOFError of a closed stdin
Abort ==
    /\ pc' = "aborted"
    /\ UNCHANGED <<idx, sub, size, total_size, total_cleaned, shown, summary,
                   sizeFault, asked, resp, cleanCalls, cleanRes, outcome, log>>

\* variant: the overview starts as soon as the first task is measured
Measure_StopsEarly ==
    /\ pc = "measuring"
    /\ \E f \in SizeFuncResults :
         LET r == calculate_size(f)
         IN IF r.raised THEN Abort
            ELSE /\ size' = [size EXCEPT ![idx] = r.value]
                 /\ sizeFault' = [sizeFault EXCEPT ![idx] = f.raised]
                 /\ log' = Append(log, <<"measure", idx>>)
                 /\ pc' = "reporting" /\ idx' = 1
                 /\ UNCHANGED <<sub, total_size, total_cleaned, shown, summary,
                                asked, resp, cleanCalls, cleanRes, outcome>>
    /\ UNCHANGED probeVars

\* for task in tasks: task.calculate_size()
Measure ==
    /\ pc = "measuring"
    /\ \E f \in SizeFuncResults :
         LET r == calculate_size(f)
         IN IF r.raised THEN Abort
            ELSE /\ size' = [size EXCEPT ![idx] = r.value]
                 /\ sizeFault' = [sizeFault EXCEPT ![idx] = f.raised]
                 /\ log' = Append(log, <<"measure", idx>>)
                 /\ IF idx = NumTasks
                    THEN pc' = "reporting" /\ idx' = 1
                    ELSE pc' = pc /\ idx' = idx + 1
                 /\ UNCHANGED <<sub, total_size, total_cleaned, shown, summary,
                                asked, resp, cleanCalls, cleanRes, outcome>>
    /\ UNCHANGED probeVars

\* variant: the size is added to the overview total without the test of its sign
OverviewTotal_Unsigned(total, s) == total + s

\* if task.size > 0: total_size += task.size
OverviewTotal(total, s) == IF s > 0 THEN total + s ELSE total

\* the overview loop; total_cleaned = 0 follows the last line of it
Report ==
    /\ pc = "reporting"
    /\ shown' = [shown EXCEPT ![idx] = format_size(size[idx])]
    /\ total_size' = OverviewTotal(total_size, size[idx])
    /\ log' = Append(log, <<"report", idx>>)
    /\ IF idx = NumTasks
       THEN pc' = "confirming" /\ idx' = 1 /\ sub' = "top" /\ total_cleaned' = 0
       ELSE pc' = pc /\ idx' = idx + 1 /\ sub' = sub /\ total_cleaned' = total_cleaned
    /\ UNCHANGED <<size, summary, sizeFault, asked, resp, cleanCalls, cleanRes, outcome>>
    /\ UNCHANGED probeVars

\* variant: every size that is not above zero is skipped
IsEmpty_NonPositive(s) == s <= 0

\* if task.size == 0: ... continue
IsEmpty(s) == s = 0

\* variant: the size is added without the test of its sign
Freed_Unsigned(total, s) == total + s

\* if task.size > 0: total_cleaned += task.size
Freed(total, s) == IF s > 0 THEN total + s ELSE total

\* the end of one pass of the confirm loop
NextTask ==
    IF idx = NumTasks
    THEN pc' = "summary" /\ idx' = idx /\ sub' = "top"
    ELSE pc' = pc /\ idx' = idx + 1 /\ sub' = "top"

SkipEmpty ==
    /\ pc = "confirming" /\ sub = "top"
    /\ IsEmpty(size[idx])
    /\ outcome' = [outcome EXCEPT ![idx] = "empty"]
    /\ log' = Append(log, <<"skip", idx>>)
    /\ NextTask
    /\ UNCHANGED <<size, total_size, total_cleaned, shown, summary, sizeFault,
                   asked, resp, cleanCalls, cleanRes>>
    /\ UNCHANGED probeVars

\* if confirm_action(...): ... else: print_info("Skipped ...")
Prompt ==
    /\ pc = "confirming" /\ sub = "top"
    /\ ~IsEmpty(size[idx])
    /\ \E stream \in Streams :
         LET r == confirm_action(stream)
         IN IF r.raised
            THEN /\ pc' = "eof"
                 /\ asked' = [asked EXCEPT ![idx] = r.reads]
                 /\ UNCHANGED <<idx, sub, size, total_size, total_cleaned, shown, summary,
                                sizeFault, resp, cleanCalls, cleanRes, outcome, log>>
            ELSE /\ asked' = [asked EXCEPT ![idx] = r.reads]
                 /\ resp' = [resp EXCEPT ![idx] = Head(stream)]
                 /\ log' = Append(log, <<"prompt", idx>>)
                 /\ IF r.value
                    THEN pc' = pc /\ idx' = idx /\ sub' = "exec" /\ outcome' = outcome
                    ELSE outcome' = [outcome EXCEPT ![idx] = "declined"] /\ NextTask
                 /\ UNCHANGED <<size, total_size, total_cleaned, shown, summary,
                                sizeFault, cleanCalls, cleanRes>>
    /\ UNCHANGED probeVars

\* variant: a cleanup that reports errors is run a second time
Execute_RetryOnFailure ==
    /\ pc = "confirming" /\ sub = "exec"
    /\ \E c \in CleanupResults :
         LET e == execute(c)
         IN IF e.raised THEN Abort
            ELSE /\ cleanCalls' = [cleanCalls EXCEPT ![idx] = @ + 1]
                 /\ cleanRes' = [cleanRes EXCEPT ![idx] =
                        IF c.raised THEN "fault" ELSE IF c.value THEN "ok" ELSE "failed"]
                 /\ log' = Append(log, <<"clean", idx>>)
                 /\ IF e.value
                    THEN /\ total_cleaned' = Freed(total_cleaned, size[idx])
                         /\ outcome' = [outcome EXCEPT ![idx] = "success"]
                    ELSE /\ total_cleaned' = total_cleaned
                         /\ outcome' = [outcome EXCEPT ![idx] = "partial"]
                 /\ IF ~e.value /\ cleanCalls[idx] = 0
                    THEN pc' = pc /\ idx' = idx /\ sub' = sub
                    ELSE NextTask
                 /\ UNCHANGED <<size, total_size, shown, summary, sizeFault, asked, resp>>
    /\ UNCHANGED probeVars

\* if task.execute(): ... total_cleaned += ... else: print_warning(...)
Execute ==
    /\ pc = "confirming" /\ sub = "exec"
    /\ \E c \in CleanupResults :
         LET e == execute(c)
         IN IF e.raised THEN Abort
            ELSE /\ cleanCalls' = [cleanCalls EXCEPT ![idx] = @ + 1]
                 /\ cleanRes' = [cleanRes EXCEPT ![idx] =
                        IF c.raised THEN "fault" ELSE IF c.value THEN "ok" ELSE "failed"]
                 /\ log' = Append(log, <<"clean", idx>>)
                 /\ IF e.value
                    THEN /\ total_cleaned' = Freed(total_cleaned, size[idx])
                         /\ outcome' = [outcome EXCEPT ![idx] = "success"]
                    ELSE /\ total_cleaned' = total_cleaned
                         /\ outcome' = [outcome EXCEPT ![idx] = "partial"]
                 /\ NextTask
                 /\ UNCHANGED <<size, total_size, shown, summary, sizeFault, asked, resp>>
    /\ UNCHANGED probeVars

\* print_success(f"Total space freed: {format_size(total_cleaned)}")
Summarize ==
    /\ pc = "summary"
    /\ summary' = format_size(total_cleaned)
    /\ pc' = "done"
    /\ UNCHANGED <<idx, sub, size, total_size, total_cleaned, shown, sizeFault,
                   asked, resp, cleanCalls, cleanRes, outcome, log>>
    /\ UNCHANGED probeVars

\* KeyboardInterrupt while main() runs
Interrupt ==
    /\ pc \in {"measuring", "reporting", "confirming", "summary"}
    /\ pc' = "interrupted"
    /\ UNCHANGED <<idx, sub, size, total_size, total_cleaned, shown, summary,
                   sizeFault, asked, resp, cleanCalls, cleanRes, outcome, log>>
    /\ UNCHANGED probeVars

Run == Measure \/ Report \/ SkipEmpty \/ Prompt \/ Execute \/ Summarize

Next ==
    \/ Measure
    \/ Report
    \/ SkipEmpty
    \/ Prompt
    \/ Execute
    \/ Summarize
    \/ Interrupt

Spec == Init /\ [][Next]_vars

\* main() runs on: every call it makes returns, and the operator answers
\* the prompt or closes the input
LiveSpec == Init /\ [][Next]_vars /\ WF_vars(Run)

ProbeNext == Probe

ProbeSpec == ProbeInit /\ [][ProbeNext]_vars

\* =====================================================================
\* Properties
\* =====================================================================
RECURSIVE SumOver(_, _)
SumOver(f, n) == IF n = 0 THEN 0 ELSE f[n] + SumOver(f, n - 1)

\* pre-measured bytes of the tasks that were measured above zero and whose
\* cleanup_func returned success
ExpectedFreed ==
    SumOver([i \in Tasks |-> IF size[i] > 0 /\ cleanRes[i] = "ok" THEN size[i] ELSE 0],
            NumTasks)

\* C1: once the confirm loop has ended, the freed total, and the figure the
\* summary prints, is the sum of the stored sizes over exactly the tasks
\* with a stored size above zero whose clean returned success.
C1_FreedTotal ==
    /\ pc \in {"summary", "done"} => total_cleaned = ExpectedFreed
    /\ pc = "done" => summary = format_size(ExpectedFreed)

C1_Witness ==
    /\ pc = "done"
    /\ \E i \in Tasks : size[i] > 0 /\ cleanRes[i] = "ok"
    /\ \E i \in Tasks : size[i] = -1 /\ cleanRes[i] = "ok"

\* C2: a task with stored size 0 is never prompted and never cleaned, and
\* every task with any other stored size that the confirm loop has passed
\* was prompted.
C2_EmptyAutoSkip ==
    \A i \in Tasks :
        /\ (asked[i] > 0 \/ cleanCalls[i] > 0) => size[i] # 0
        /\ outcome[i] = "empty" <=> (outcome[i] # "pending" /\ size[i] = 0)
        /\ (outcome[i] # "pending" /\ size[i] # 0) => asked[i] >= 1

C2_Witness ==
    /\ pc = "summary"
    /\ \E i \in Tasks : size[i] = 0 /\ outcome[i] = "empty" /\ asked[i] = 0
    /\ \E i \in Tasks : size[i] = -1 /\ asked[i] = 1

\* the answers that are 'y' or 'yes' in any mix of cases
Affirmative ==
    {<<a>> : a \in {"y", "Y"}} \cup
    {<<a, b, c>> : a \in {"y", "Y"}, b \in {"e", "E"}, c \in {"s", "S"}}

\* C3: a task is cleaned only after an affirmative answer to its prompt; one
\* answer is read per prompt, and any other answer declines the task without
\* a call of its cleanup function.
C3_OnlyAffirmativeCleans ==
    \A i \in Tasks :
        /\ asked[i] <= 1
        /\ cleanCalls[i] > 0 => (asked[i] = 1 /\ resp[i] \in Affirmative)
        /\ (resp[i] # NoAnswer /\ resp[i] \notin Affirmative)
              => (outcome[i] = "declined" /\ cleanCalls[i] = 0)

C3_Witness ==
    /\ \E i \in Tasks : resp[i] = <<"y", "y">> /\ outcome[i] = "declined"
    /\ \E i \in Tasks : resp[i] = <<"Y", "e", "S">> /\ cleanCalls[i] = 1

Logged(kind, i) == \E n \in 1..Len(log) : log[n] = <<kind, i>>

C8_FaultIsUnmeasured ==
    \A i \in Tasks :
        sizeFault[i] =>
            /\ size[i] = -1
            /\ outcome[i] # "empty"
            /\ shown[i] # EmptyText

\* ---- get_dir_size ----
Calls == 1..Len(results)

IsDir(d) == d.path # <<>> /\ d.exists

\* the directory has contents and none of them can be read
AllDenied(d) ==
    /\ IsDir(d)
    /\ d.files # <<>> \/ d.deniedSubdir
    /\ \A i \in 1..Len(d.files) : d.files[i].denied

\* the directory has no contents and can be read
EmptyReadable(d) == IsDir(d) /\ d.files = <<>> /\ ~d.deniedSubdir

\* du gave a total, or the manual walk was taken
TwoPaths == {"total", "silent", "garbage", "timeout"}

\* C5: every call on a directory whose contents are all permission-denied
\* returns -1, whatever du did.
C5_AllDeniedIsAccessDenied ==
    AllDenied(pdir) => \A j \in Calls : results[j].res = Ret(-1)

\* C6: on a directory with a readable file of size k > 0 and some denied
\* file, every call that took the du total or the manual walk returns a
\* byte count of at least k.
C6_PartialSumAtLeastReadable ==
    \A j \in Calls : \A i \in 1..Len(pdir.files) :
        ( /\ IsDir(pdir)
          /\ results[j].du \in TwoPaths
          /\ ~pdir.files[i].denied /\ pdir.files[i].size > 0
          /\ \E m \in 1..Len(pdir.files) : pdir.files[m].denied )
        => (~results[j].res.raised /\ results[j].res.value >= pdir.files[i].size)

\* C7: on an existing, empty, readable directory no call returns -1, and
\* every call in which du gave a total, gave nothing usable or timed out
\* returns 0.
C7_EmptyIsZero ==
    EmptyReadable(pdir) =>
        \A j \in Calls :
            /\ results[j].res # Ret(-1)
            /\ results[j].du \in TwoPaths => results[j].res = Ret(0)

C7_Witness ==
    /\ EmptyReadable(pdir)
    /\ Len(results) >= 2
    /\ results[1].du = "total" /\ results[1].res = Ret(0)
    /\ results[2].du = "timeout" /\ results[2].res = Ret(0)

\* C9: no call of get_dir_size raises.
C9_NeverRaises == \A j \in Calls : ~results[j].res.raised

\* C10: all calls on the same unmodified directory in which du gave a
\* total, gave nothing usable or timed out return the same result.
C10_Repeatable ==
    \A j \in Calls : \A m \in Calls :
        (results[j].du \in TwoPaths /\ results[m].du \in TwoPaths)
            => results[j].res = results[m].res

\* ---- order of the run ----
\* the phase an event of the log belongs to
EventPhase(kind) ==
    CASE kind = "measure" -> 1
      [] kind = "report" -> 2
      [] OTHER -> 3

\* the phase main() is in; a run that was ended stays ended
PcPhase(p) ==
    CASE p = "measuring" -> 1
      [] p = "reporting" -> 2
      [] p = "confirming" -> 3
      [] p = "summary" -> 4
      [] p = "done" -> 5
      [] OTHER -> 6

C11_Order ==
    /\ \A n \in 1..Len(log) :
          /\ n <= NumTasks => log[n] = <<"measure", n>>
          /\ n > NumTasks => log[n][1] # "measure"
          /\ \A m \in 1..n : EventPhase(log[m][1]) <= EventPhase(log[n][1])
    /\ (\E i \in Tasks : Logged("report", i)) => \A i \in Tasks : Logged("measure", i)
    /\ pc \in {"reporting", "confirming", "summary", "done"}
          => \A i \in Tasks : Logged("measure", i)
    /\ pc = "measuring" => \A n \in 1..Len(log) : log[n][1] = "measure"
    /\ pc = "reporting" => \A n \in 1..Len(log) : EventPhase(log[n][1]) <= 2

\* C11: the tasks are measured in catalog order, all of them before the
\* first line of the overview is rendered; no task is measured after that,
\* and main() never moves back to an earlier phase.
C11_MeasureThenReport ==
    /\ []C11_Order
    /\ [][PcPhase(pc') >= PcPhase(pc)]_vars

C11_Witness ==
    /\ pc = "reporting"
    /\ Len(log) = NumTasks + 1
    /\ log[NumTasks + 1] = <<"report", 1>>
    /\ sizeFault[1]

ConfirmKinds == {"skip", "prompt", "clean"}

\* C12: prompts and cleans happen in catalog order, the order of the
\* overview; a task is cleaned at most once, directly after its own
\* affirmative answer, and before any later task is prompted.
C12_SequentialCleanup ==
    /\ \A i \in Tasks : cleanCalls[i] <= 1
    /\ \A n \in 1..Len(log) : \A m \in 1..n :
          \* the overview and the confirm loop both go in catalog order
          /\ (log[m][1] = "report" /\ log[n][1] = "report" /\ m < n)
                => log[m][2] < log[n][2]
          /\ (log[m][1] \in ConfirmKinds /\ log[n][1] \in ConfirmKinds)
                => log[m][2] <= log[n][2]
          \* one prompt and one clean per task at most
          /\ (m < n /\ log[m][1] = log[n][1]) => log[m][2] # log[n][2]
    /\ \A n \in 1..Len(log) :
          \* a clean follows directly the affirmative answer of its own task
          log[n][1] = "clean" =>
              /\ n > 1 /\ log[n - 1] = <<"prompt", log[n][2]>>
              /\ resp[log[n][2]] \in Affirmative
    \* while a clean is due, the last event is the prompt of that task
    /\ (pc = "confirming" /\ sub = "exec") =>
          (log # <<>> /\ log[Len(log)] = <<"prompt", idx>> /\ resp[idx] \in Affirmative)
    \* the number of calls is the number of clean events
    /\ \A i \in Tasks : cleanCalls[i] = (IF Logged("clean", i) THEN 1 ELSE 0)

C12_Witness ==
    /\ pc = "summary"
    /\ SubSeq(log, Len(log) - 3, Len(log)) =
          <<(<<"prompt", NumTasks - 1>>), (<<"clean", NumTasks - 1>>),
            (<<"prompt", NumTasks>>), (<<"clean", NumTasks>>)>>

\* ---- the two totals ----
\* the sum of the stored sizes above zero of the tasks the overview has shown
ShownPositive ==
    SumOver([i \in Tasks |-> IF Logged("report", i) /\ size[i] > 0 THEN size[i] ELSE 0],
            NumTasks)

C13_Bounds ==
    /\ total_cleaned >= 0
    /\ total_cleaned <= total_size
    /\ total_size = ShownPositive
    /\ total_cleaned = ExpectedFreed
    /\ \A i \in Tasks :
          (size[i] = -1 /\ outcome[i] = "success") =>
              total_cleaned = SumOver([j \in Tasks |->
                  IF j # i /\ size[j] > 0 /\ cleanRes[j] = "ok" THEN size[j] ELSE 0], NumTasks)

\* C13: in every state the freed total is at least 0 and at most the
\* overview's total, which is the sum of the stored sizes above zero; a
\* size of -1 is added to neither; and no step lowers the freed total.
C13_TotalsBounded ==
    /\ []C13_Bounds
    /\ [][total_cleaned' >= total_cleaned]_vars

C13_Witness ==
    /\ pc = "summary"
    /\ total_cleaned > 0
    /\ total_cleaned < total_size
    /\ \E i \in Tasks : size[i] > 0 /\ outcome[i] = "partial"

====
